---- MODULE Spec2Model ----
(***************************************************************************)
(* A model of boondock's transport selection (src/src/docker.rs), its      *)
(* client certificate resolver (src/src/connector.rs) and its request      *)
(* pipeline (src/src/docker.rs), as built for cfg(unix).                   *)
(*                                                                         *)
(* Text that the code inspects (DOCKER_HOST, URLs, messages) is a sequence *)
(* of one-character strings, so that starts_with, replacen and format!     *)
(* are computed; a file name or a directory is such a text of one piece,   *)
(* and a path is the sequence of its components.  Bytes are numbers        *)
(* 0..255, code points are numbers.                                        *)
(***************************************************************************)
EXTENDS Integers, Sequences, FiniteSets, TLC

VARIABLES
    env,        \* the process environment: DOCKER_HOST, DOCKER_TLS_VERIFY, DOCKER_CERT_PATH, DOCKER_CONFIG, HOME
    fs,         \* the file system: path -> [exists, sections]
    opened,     \* every path handed to fs::File::open so far, in order
    log,        \* what error! has logged so far, in order
    built,      \* the Connector constructors called so far, in order
    docker,     \* what connect_with_defaults returned: NotCalled, or a Result<Docker>
    identity,   \* what the last ResolvesClientCert::resolve call returned: NotCalled, or an Option<CertifiedKey>
    hello,      \* the arguments of that resolve call: acceptable_issuers, sigschemes
    call,       \* the request in flight: which method, type_name, url
    phase,      \* the request's phase: Unconnected, Connecting, Connected, Streaming, Closed
    status,     \* the HTTP status of the response, 0 while none has arrived
    delivered,  \* the chunks the body stream has yielded so far, in arrival order
    data,       \* execute_request's local buffer `data`
    result,     \* what the call returned: NotReturned, or a Result
    history,    \* what happened to a built client, in order: changes of the environment and TLS handshakes
    trail       \* what happened to the request, in order: request, connected, status, chunk, end, decode, and the failures

vars == <<env, fs, opened, log, built, docker, identity, hello,
          call, phase, status, delivered, data, result, history, trail>>

transportVars == <<built, docker>>
resolverVars == <<identity, hello>>
requestVars == <<call, phase, status, delivered, data, result, trail>>

(***************************************************************************)
(* Bounds of the model.                                                    *)
(***************************************************************************)
MaxHostParts == 2   \* pieces a DOCKER_HOST value is put together from
MaxCerts == 2       \* PEM sections in cert.pem and in ca.pem
MaxKeys == 2        \* PEM sections in key.pem
MaxChunks == 3      \* chunks one response body is delivered in
MaxEvents == 2      \* environment changes and handshakes one built client sees

(***************************************************************************)
(* Results and options.                                                    *)
(***************************************************************************)
Ok(v) == [ok |-> TRUE, val |-> v]
Err(e) == [ok |-> FALSE, err |-> e]
None == [some |-> FALSE]
Some(v) == [some |-> TRUE, val |-> v]
NotCalled == [called |-> FALSE]
NoCall ==
    [method |-> [name |-> "none", via |-> "none", type_name |-> "", shape |-> ""],
     url |-> <<>>]
NoHello == [acceptable_issuers |-> <<>>, sigschemes |-> <<>>]
NotReturned == [returned |-> FALSE]

(***************************************************************************)
(* Text.                                                                   *)
(***************************************************************************)
RECURSIVE Flatten(_)
Flatten(ss) == IF ss = <<>> THEN <<>> ELSE Head(ss) \o Flatten(Tail(ss))

SeqsUpTo(S, n) == UNION {[1..k -> S] : k \in 0..n}

starts_with(s, pat) == Len(s) >= Len(pat) /\ SubSeq(s, 1, Len(pat)) = pat

\* str::find: the index of the first match of pat in s, 0 when there is none
find(s, pat) ==
    LET hits == {i \in 1..(Len(s) - Len(pat) + 1) : SubSeq(s, i, i + Len(pat) - 1) = pat}
    IN  IF hits = {} THEN 0 ELSE CHOOSE i \in hits : \A j \in hits : i <= j

contains(s, pat) == pat = <<>> \/ find(s, pat) # 0

\* a replacement that ignores the count and rewrites every match
RECURSIVE replaceAll(_, _, _, _)
replaceAll(s, pat, to, count) ==
    LET i == find(s, pat)
    IN  IF i = 0 THEN s
        ELSE SubSeq(s, 1, i - 1) \o to
             \o replaceAll(SubSeq(s, i + Len(pat), Len(s)), pat, to, count)

\* str::replacen: the first `count` matches of pat, left to right, become `to`
RECURSIVE replacen(_, _, _, _)
replacen(s, pat, to, count) ==
    LET i == find(s, pat)
    IN  IF count = 0 \/ i = 0 THEN s
        ELSE SubSeq(s, 1, i - 1) \o to
             \o replacen(SubSeq(s, i + Len(pat), Len(s)), pat, to, count - 1)

UnixScheme == <<"u", "n", "i", "x", ":", "/", "/">>
TcpScheme == <<"t", "c", "p", ":", "/", "/">>
HttpsScheme == <<"h", "t", "t", "p", "s", ":", "/", "/">>

DEFAULT_DOCKER_HOST ==
    UnixScheme \o <<"/", "v", "a", "r", "/", "r", "u", "n", "/",
                    "d", "o", "c", "k", "e", "r", ".", "s", "o", "c", "k">>

(***************************************************************************)
(* The environment.                                                        *)
(***************************************************************************)
Unset == [state |-> "unset", val |-> <<>>]
NotUnicode == [state |-> "notunicode", val |-> <<>>]
Set(v) == [state |-> "set", val |-> v]

\* std::env::var: Ok only for a variable that is set to valid unicode
env_var(name) == IF env[name].state = "set" THEN Ok(env[name].val) ELSE Err("VarError")

\* dirs::home_dir
home_dir == IF env["HOME"].state = "set" THEN Some(env["HOME"].val) ELSE None

\* the pieces DOCKER_HOST values are put together from: both schemes, near
\* misses of both, and plain text
HostPieces ==
    { UnixScheme, TcpScheme,
      <<"u", "n", "i", "x", ":", "/">>,
      <<"T", "C", "P", ":", "/", "/">>,
      <<"h">> }

Hosts == {Flatten(ps) : ps \in SeqsUpTo(HostPieces, MaxHostParts)}

(***************************************************************************)
(* The file system and rustls' pemfile readers.                            *)
(***************************************************************************)
CertPathDir == <<"/certs">>
ConfigDir == <<"/config">>
HomeDir == <<"/home">>

CertPem == <<"cert.pem">>
CaPem == <<"ca.pem">>
KeyPem == <<"key.pem">>
DotDocker == <<".docker">>
PemFiles == {CertPem, CaPem, KeyPem}
CertDirs == {<<CertPathDir>>, <<ConfigDir>>, <<HomeDir, DotDocker>>}
FsPaths == {Append(d, f) : d \in CertDirs, f \in PemFiles}

Missing == [exists |-> FALSE, sections |-> <<>>]
File(sections) == [exists |-> TRUE, sections |-> sections]

Section(label, der) == [label |-> label, der |-> der, b64ok |-> TRUE]
Corrupt(label) == [label |-> label, der |-> "", b64ok |-> FALSE]

LeafSections == {Section("CERTIFICATE", "leafA"), Section("CERTIFICATE", "leafB")}
CaSections == {Section("CERTIFICATE", "caC")}
KeySections ==
    { Section("PRIVATE KEY", "rsa-pkcs8"),
      Section("PRIVATE KEY", "ec-pkcs8"),
      Section("RSA PRIVATE KEY", "rsa-pkcs1") }

LeafFiles ==
    {Missing, File(<<Corrupt("CERTIFICATE")>>)}
        \cup {File(s) : s \in SeqsUpTo(LeafSections, MaxCerts)}
CaFiles ==
    {Missing, File(<<Corrupt("CERTIFICATE")>>)}
        \cup {File(s) : s \in SeqsUpTo(CaSections, MaxCerts)}
KeyFiles ==
    {Missing, File(<<Corrupt("PRIVATE KEY")>>), File(<<Corrupt("RSA PRIVATE KEY")>>)}
        \cup {File(s) : s \in SeqsUpTo(KeySections, MaxKeys)}

\* a file system whose directory d holds the three files and nothing else exists
FsWith(d, cert, ca, key) ==
    [p \in FsPaths |->
        IF p = Append(d, CertPem) THEN cert
        ELSE IF p = Append(d, CaPem) THEN ca
        ELSE IF p = Append(d, KeyPem) THEN key
        ELSE Missing]

\* pemfile's extract: the payloads of the sections with this label, in file
\* order; one such section that does not decode fails the whole read
pemfile_extract(sections, label) ==
    LET mine == SelectSeq(sections, LAMBDA s : s.label = label)
    IN  IF \E i \in 1..Len(mine) : ~mine[i].b64ok
        THEN Err("()")
        ELSE Ok([i \in 1..Len(mine) |-> mine[i].der])

pemfile_certs(sections) == pemfile_extract(sections, "CERTIFICATE")
pemfile_pkcs8_private_keys(sections) == pemfile_extract(sections, "PRIVATE KEY")
pemfile_rsa_private_keys(sections) == pemfile_extract(sections, "RSA PRIVATE KEY")

\* RSASigningKey::new: only an RSA key, in either encoding, makes a signing key
RSASigningKey_new(key) ==
    IF key \in {"rsa-pkcs8", "rsa-pkcs1"} THEN Ok([signing_key |-> key]) ELSE Err("()")

(***************************************************************************)
(* connector.rs: the certificate resolver.  Every reader returns, with its *)
(* result, the paths it opened (`opens`), in order.                        *)
(***************************************************************************)
Did(r, opens) == [r |-> r, opens |-> opens]

should_enable_tls == env_var("DOCKER_TLS_VERIFY").ok

default_cert_path ==
    LET cert_path == env_var("DOCKER_CERT_PATH")
        from_env == IF cert_path.ok THEN cert_path ELSE env_var("DOCKER_CONFIG")
    IN  IF from_env.ok THEN Ok(<<from_env.val>>)
        ELSE IF home_dir.some THEN Ok(<<home_dir.val, DotDocker>>)
        ELSE Err([kind |-> "NoCertPath"])

docker_ca_pem_path ==
    LET dir == default_cert_path
    IN  IF dir.ok THEN Ok(Append(dir.val, CaPem)) ELSE dir

open_buffered(path) ==
    IF fs[path].exists
    THEN Did(Ok(fs[path].sections), <<path>>)
    ELSE Did(Err([kind |-> "Msg", msg |-> "cannot open", path |-> path]), <<path>>)

certs(path) ==
    LET rdr == open_buffered(path)
    IN  IF ~rdr.r.ok THEN rdr
        ELSE IF pemfile_certs(rdr.r.val).ok
        THEN Did(pemfile_certs(rdr.r.val), rdr.opens)
        ELSE Did(Err([kind |-> "Msg", msg |-> "cannot read", path |-> path]), rdr.opens)

\* key discovery that looks for RSA keys only when no PKCS8 key was found
keys_pkcs8_first(path) ==
    LET rdr == open_buffered(path)
        cannot_read == Err([kind |-> "Msg", msg |-> "cannot read", path |-> path])
    IN  IF ~rdr.r.ok THEN rdr
        ELSE IF ~pemfile_pkcs8_private_keys(rdr.r.val).ok
        THEN Did(cannot_read, rdr.opens)
        ELSE IF pemfile_pkcs8_private_keys(rdr.r.val).val # <<>>
        THEN Did(pemfile_pkcs8_private_keys(rdr.r.val), rdr.opens)
        ELSE LET again == open_buffered(path)
                 opens == rdr.opens \o again.opens
             IN  IF ~again.r.ok THEN Did(again.r, opens)
                 ELSE IF ~pemfile_rsa_private_keys(again.r.val).ok
                 THEN Did(cannot_read, opens)
                 ELSE Did(pemfile_rsa_private_keys(again.r.val), opens)

\* keys, lines 286-299: the PKCS8 keys, then, from the file opened again, the RSA keys
keys(path) ==
    LET rdr == open_buffered(path)
        cannot_read == Err([kind |-> "Msg", msg |-> "cannot read", path |-> path])
    IN  IF ~rdr.r.ok THEN rdr
        ELSE IF ~pemfile_pkcs8_private_keys(rdr.r.val).ok
        THEN Did(cannot_read, rdr.opens)
        ELSE LET again == open_buffered(path)
                 opens == rdr.opens \o again.opens
             IN  IF ~again.r.ok THEN Did(again.r, opens)
                 ELSE IF ~pemfile_rsa_private_keys(again.r.val).ok
                 THEN Did(cannot_read, opens)
                 ELSE Did(Ok(pemfile_pkcs8_private_keys(rdr.r.val).val
                             \o pemfile_rsa_private_keys(again.r.val).val), opens)

\* the check of line 260 with the test dropped: the first key, whatever the count
PickKeyUnchecked(all_keys, key_path) ==
    IF Len(all_keys) >= 1 THEN Ok(all_keys[1])
    ELSE Err([kind |-> "Msg", msg |-> "expected 1 private key", path |-> key_path,
              found |-> Len(all_keys)])

\* docker_client_key, lines 260-269: exactly one key, or an error naming the count
PickKey(all_keys, key_path) ==
    IF Len(all_keys) = 1 THEN Ok(all_keys[1])
    ELSE Err([kind |-> "Msg", msg |-> "expected 1 private key", path |-> key_path,
              found |-> Len(all_keys)])

\* the chain of line 255 with the two files in the wrong order
ChainCaFirst(leaf, ca) == ca \o leaf

\* docker_client_key, lines 254-255: cert.pem's certificates, then ca.pem's
Chain(leaf, ca) == leaf \o ca

docker_client_key ==
    LET dir == default_cert_path
    IN  IF ~dir.ok THEN Did(dir, <<>>) ELSE
    LET leaf == certs(Append(dir.val, CertPem))
    IN  IF ~leaf.r.ok THEN leaf ELSE
    LET ca == certs(Append(dir.val, CaPem))
        o2 == leaf.opens \o ca.opens
    IN  IF ~ca.r.ok THEN Did(ca.r, o2) ELSE
    LET all_certs == Chain(leaf.r.val, ca.r.val)
        key_path == Append(dir.val, KeyPem)
        all_keys == keys(key_path)
        o3 == o2 \o all_keys.opens
    IN  IF ~all_keys.r.ok THEN Did(all_keys.r, o3) ELSE
    LET key == PickKey(all_keys.r.val, key_path)
    IN  IF ~key.ok THEN Did(key, o3) ELSE
    LET signing_key == RSASigningKey_new(key.val)
    IN  IF ~signing_key.ok
        THEN Did(Err([kind |-> "Msg", msg |-> "could not parse signing key",
                      path |-> key_path]), o3)
        ELSE Did(Ok([cert |-> all_certs, key |-> signing_key.val]), o3)

\* has_certs answering yes whatever the environment says
has_certs_always == TRUE

\* DockerClientCertResolver::has_certs
has_certs == should_enable_tls

\* what resolve returns, what it opens, and what it logs
resolve_outcome ==
    IF has_certs
    THEN LET key == docker_client_key
         IN  IF key.r.ok
             THEN [ret |-> Some(key.r.val), opens |-> key.opens, logs |-> <<>>]
             ELSE [ret |-> None, opens |-> key.opens,
                   logs |-> <<[level |-> "error",
                               msg |-> "error reading Docker client keys",
                               err |-> key.r.err]>>]
    ELSE [ret |-> None, opens |-> <<>>, logs |-> <<>>]

Issuers == {<<>>, <<"issuerX">>}
SigSchemes == {<<>>, <<"RSA_PKCS1_SHA256">>}

\* the TLS layer asks for a client identity during a handshake
resolve(acceptable_issuers, sigschemes) ==
    /\ identity = NotCalled
    /\ identity' = [called |-> TRUE, ret |-> resolve_outcome.ret]
    /\ hello' = [acceptable_issuers |-> acceptable_issuers, sigschemes |-> sigschemes]
    /\ opened' = opened \o resolve_outcome.opens
    /\ log' = log \o resolve_outcome.logs
    /\ UNCHANGED <<env, fs, history, transportVars, requestVars>>

Resolve == \E i \in Issuers, s \in SigSchemes : resolve(i, s)

(***************************************************************************)
(* connector.rs and docker.rs: building the client.                        *)
(***************************************************************************)
\* rustls_native_certs::load_native_certs: all of the OS store, a part of it
\* with an error, or an error alone
NativeLoads == {"all", "partial", "none"}

\* Connector::https; `native` is what the OS store load came to
Connector_https(native) ==
    LET os_roots == IF native = "all" THEN {"os-roots"}
                    ELSE IF native = "partial" THEN {"os-roots-partial"}
                    ELSE {}
        warned == IF native = "all" THEN <<>>
                  ELSE IF native = "partial"
                  THEN <<[level |-> "warn", msg |-> "could not load all certificates"]>>
                  ELSE <<[level |-> "warn", msg |-> "cannot access native certificate store"]>>
        root_store == os_roots \cup {"webpki-roots"}
        made(roots) == [variant |-> "Https", alpn_protocols |-> <<"h2", "http/1.1">>,
                        root_store |-> roots,
                        client_auth_cert_resolver |-> "DockerClientCertResolver"]
    IN  IF ~should_enable_tls
        THEN [r |-> Ok(made(root_store)), opens |-> <<>>, logs |-> warned]
        ELSE IF ~docker_ca_pem_path.ok
        THEN [r |-> docker_ca_pem_path, opens |-> <<>>, logs |-> warned]
        ELSE LET ca_path == docker_ca_pem_path.val
                 rdr == open_buffered(ca_path)
             IN  IF ~rdr.r.ok
                 THEN [r |-> rdr.r, opens |-> rdr.opens, logs |-> warned]
                 ELSE IF ~pemfile_certs(rdr.r.val).ok
                 THEN [r |-> Err([kind |-> "Msg", msg |-> "error reading", path |-> ca_path]),
                       opens |-> rdr.opens, logs |-> warned]
                 ELSE [r |-> Ok(made(root_store
                                     \cup {pemfile_certs(rdr.r.val).val[i] :
                                              i \in 1..Len(pemfile_certs(rdr.r.val).val)})),
                       opens |-> rdr.opens, logs |-> warned]

\* Connector::unix
Connector_unix == [r |-> Ok([variant |-> "Local"]), opens |-> <<>>, logs |-> <<>>]

Made(r, opens, logs, ctors) == [r |-> r, opens |-> opens, logs |-> logs, ctors |-> ctors]

\* Docker::connect_with_unix, the cfg(unix) one
connect_with_unix(addr) ==
    LET client_addr == IF starts_with(addr, UnixScheme)
                       THEN replacen(addr, UnixScheme, <<>>, 1)
                       ELSE addr
        connector == Connector_unix
    IN  IF ~connector.r.ok
        THEN Made(connector.r, connector.opens, connector.logs, <<"unix">>)
        ELSE Made(Ok([client |-> connector.r.val,
                      url_builder |-> [variant |-> "Local", base |-> client_addr]]),
                  connector.opens, connector.logs, <<"unix">>)

\* Docker::connect_with_ssl
connect_with_ssl(addr, native) ==
    LET client_addr == IF starts_with(addr, TcpScheme)
                       THEN replacen(addr, TcpScheme, HttpsScheme, 1)
                       ELSE addr
        connector == Connector_https(native)
    IN  IF ~connector.r.ok
        THEN Made(connector.r, connector.opens, connector.logs, <<"https">>)
        ELSE Made(Ok([client |-> connector.r.val,
                      url_builder |-> [variant |-> "Https", base |-> client_addr]]),
                  connector.opens, connector.logs, <<"https">>)

\* ResultExt::chain_err: an error is wrapped, the cause kept
chain_err(made, kind) ==
    IF made.r.ok THEN made
    ELSE Made(Err([kind |-> kind.kind, host |-> kind.host, cause |-> made.r.err]),
              made.opens, made.logs, made.ctors)

\* a dispatch that hands every endpoint that is not unix:// to connect_with_ssl
connect_with_defaults_lax(native) ==
    LET var == env_var("DOCKER_HOST")
        host == IF var.ok THEN var.val ELSE DEFAULT_DOCKER_HOST
        mkerr == [kind |-> "CouldNotConnect", host |-> host]
    IN  IF starts_with(host, UnixScheme)
        THEN chain_err(connect_with_unix(host), mkerr)
        ELSE chain_err(connect_with_ssl(host, native), mkerr)

\* Docker::connect_with_defaults
connect_with_defaults(native) ==
    LET var == env_var("DOCKER_HOST")
        host == IF var.ok THEN var.val ELSE DEFAULT_DOCKER_HOST
        mkerr == [kind |-> "CouldNotConnect", host |-> host]
    IN  IF starts_with(host, UnixScheme)
        THEN chain_err(connect_with_unix(host), mkerr)
        ELSE IF starts_with(host, TcpScheme)
        THEN chain_err(connect_with_ssl(host, native), mkerr)
        ELSE Made(Err([kind |-> "UnsupportedScheme", host |-> host]), <<>>, <<>>, <<>>)

\* the program builds its client
ConnectWithDefaults ==
    /\ docker = NotCalled
    /\ \E native \in NativeLoads :
        LET made == connect_with_defaults(native)
        IN  /\ docker' = [called |-> TRUE, ret |-> made.r]
            /\ opened' = opened \o made.opens
            /\ log' = log \o made.logs
            /\ built' = built \o made.ctors
    /\ UNCHANGED <<env, fs, history, resolverVars, requestVars>>

(***************************************************************************)
(* docker.rs: the request pipeline.                                        *)
(***************************************************************************)
\* a success test that also lets redirects through
is_success_lax(s) == 200 <= s /\ s <= 399

\* http::StatusCode::is_success
is_success(s) == 200 <= s /\ s <= 299

DigitChars == <<"0", "1", "2", "3", "4", "5", "6", "7", "8", "9">>

\* the decimal digits of a three-digit status code, as u16's Display writes them
Digits(s) ==
    << DigitChars[(s \div 100) + 1],
       DigitChars[((s \div 10) % 10) + 1],
       DigitChars[(s % 10) + 1] >>

\* http::StatusCode::canonical_reason
canonical_reason(s) ==
    CASE s = 101 -> <<"Switching Protocols">>
      [] s = 200 -> <<"OK">>
      [] s = 204 -> <<"No Content">>
      [] s = 300 -> <<"Multiple Choices">>
      [] s = 404 -> <<"Not Found">>
      [] s = 500 -> <<"Internal Server Error">>
      [] OTHER -> <<"<unknown status code>">>

\* http::StatusCode's Display: the number, a space, the reason
status_display(s) == Digits(s) \o <<" ">> \o canonical_reason(s)

\* start_request with the status test dropped: every response is handed on
start_request_unchecked(s) == Ok([status |-> s])

\* Docker::start_request, lines 128-132: what it returns for a response of status s
start_request(s) ==
    IF is_success(s)
    THEN Ok([status |-> s])
    ELSE Err([kind |-> "Msg", msg |-> <<"HTTP request failed: ">> \o status_display(s)])

\* http::Uri's parser, as far as this model's URL alphabet goes: a space is
\* no URI character
uri_parses(text) == \A i \in 1..Len(text) : text[i] # " "

\* UrlBuilder::build_url
build_url(url_builder, path) ==
    IF url_builder.variant = "Https"
    THEN IF uri_parses(url_builder.base \o path)
         THEN Ok([uri |-> url_builder.base \o path])
         ELSE Err([kind |-> "Msg", msg |-> "cannot parse URL",
                   base |-> url_builder.base, path |-> path])
    ELSE Ok([socket |-> url_builder.base, path |-> path])

\* Docker::build_empty_get_request
build_empty_get_request(request_url) ==
    Ok([method |-> "GET", uri |-> request_url, body |-> <<>>])

\* Vec::extend with the chunk put in front of the buffer
extend_front(buf, chunk) == chunk \o buf

\* execute_request, line 141: data.extend(&chunk[..])
extend(buf, chunk) == buf \o chunk

EndOfStream == [some |-> FALSE]

\* the loop of execute_request when it treats a failed read as the end of the body
next_chunk_partial(buf, item) ==
    IF ~item.some THEN [continue |-> FALSE, data |-> <<>>, ret |-> Ok(buf)]
    ELSE IF ~item.val.ok
    THEN [continue |-> FALSE, data |-> <<>>, ret |-> Ok(buf)]
    ELSE [continue |-> TRUE, data |-> extend(buf, item.val.val), ret |-> Ok(<<>>)]

\* execute_request, lines 139-143: one turn of the loop on what stream.next()
\* yielded.  `ret` is what the function returns when the loop does not
\* continue; a returning function's buffer is moved out or dropped.
next_chunk(buf, item) ==
    IF ~item.some THEN [continue |-> FALSE, data |-> <<>>, ret |-> Ok(buf)]
    ELSE IF ~item.val.ok
    THEN [continue |-> FALSE, data |-> <<>>,
          ret |-> Err([kind |-> "Hyper", cause |-> item.val.err])]
    ELSE [continue |-> TRUE, data |-> extend(buf, item.val.val), ret |-> Ok(<<>>)]

\* String::from_utf8_lossy, for bodies of ASCII bytes and 0xFF: ASCII is kept,
\* a byte that no UTF-8 sequence holds becomes U+FFFD
from_utf8_lossy(bytes) ==
    [i \in 1..Len(bytes) |-> IF bytes[i] < 128 THEN bytes[i] ELSE 65533]

OpenObject == <<123, 34, 97, 34, 58>>   \* {"a":
CloseObject == <<125>>                  \* }
OpenArray == <<91>>                     \* [
CloseArray == <<93>>                    \* ]
One == <<49>>                           \* 1
NotJson == <<110, 111, 116, 32, 106, 115, 111, 110>>   \* not json
BadByte == <<255>>

\* a JSON reader for the documents these bytes can spell: a number is a run
\* of digits, an object is {"a": value }, an array is [] or [ value ].  The
\* index after the value that starts at i, 0 when none starts there.
RECURSIVE json_value(_, _)
json_value(b, i) ==
    IF i > Len(b) THEN 0
    ELSE IF b[i] = 49
    THEN IF i < Len(b) /\ b[i + 1] = 49 THEN json_value(b, i + 1) ELSE i + 1
    ELSE IF b[i] = 91
    THEN IF i < Len(b) /\ b[i + 1] = 93 THEN i + 2
         ELSE LET j == json_value(b, i + 1)
              IN  IF j # 0 /\ j <= Len(b) /\ b[j] = 93 THEN j + 1 ELSE 0
    ELSE IF /\ i + Len(OpenObject) - 1 <= Len(b)
            /\ SubSeq(b, i, i + Len(OpenObject) - 1) = OpenObject
    THEN LET j == json_value(b, i + Len(OpenObject))
         IN  IF j # 0 /\ j <= Len(b) /\ b[j] = 125 THEN j + 1 ELSE 0
    ELSE 0

\* serde_json::from_slice::<T>: the whole slice must be one document, and its
\* top level must be what T is: a sequence for a Vec, a map for a record
from_slice(shape, body) ==
    IF /\ json_value(body, 1) = Len(body) + 1
       /\ body # <<>>
       /\ body[1] = (IF shape = "array" THEN 91 ELSE 123)
    THEN Ok([decoded |-> body, shape |-> shape])
    ELSE Err("serde_json::Error")

\* the parse error without the response text
parse_error_bare(type_name, body) ==
    [kind |-> "ParseError", type_name |-> type_name, text |-> <<>>,
     cause |-> "serde_json::Error"]

\* decode_url, lines 161-163: ErrorKind::ParseError(type_name, from_utf8_lossy(body))
parse_error(type_name, body) ==
    [kind |-> "ParseError", type_name |-> type_name, text |-> from_utf8_lossy(body),
     cause |-> "serde_json::Error"]

\* decode_url, lines 161-164: what it returns for a body that was read whole
decode(type_name, shape, body) ==
    IF from_slice(shape, body).ok
    THEN from_slice(shape, body)
    ELSE Err(parse_error(type_name, body))

\* the callers: containers and version decode, ping returns the bytes,
\* export_container hands the response on with its body unread
Methods ==
    { [name |-> "containers", via |-> "decode_url", type_name |-> "Container", shape |-> "array"],
      [name |-> "version", via |-> "decode_url", type_name |-> "Version", shape |-> "map"],
      [name |-> "ping", via |-> "execute_request", type_name |-> "", shape |-> ""],
      [name |-> "export_container", via |-> "start_request", type_name |-> "", shape |-> ""] }

Urls == { <<"/", "v">>, <<"/", " ">> }
Statuses == {101, 200, 204, 299, 300, 404, 500}
Chunks == {<<>>, OpenObject, One, CloseObject, OpenArray \o CloseArray, NotJson, BadByte}

Returned(r) == [returned |-> TRUE, ret |-> r]

\* a caller starts a request: the URL and the request are built and handed
\* to the hyper client (decode_url lines 158-160, ping lines 297-299,
\* export_container lines 290-292)
Call(method, url) ==
    /\ docker.called
    /\ docker.ret.ok
    /\ call = NoCall
    /\ phase = "Unconnected"
    /\ call' = [method |-> method, url |-> url]
    /\ LET request_url == build_url(docker.ret.val.url_builder, url)
       IN  IF request_url.ok /\ build_empty_get_request(request_url.val).ok
           THEN /\ phase' = "Connecting"
                /\ result' = result
                /\ trail' = Append(trail, "request")
           ELSE /\ phase' = "Closed"
                /\ result' = Returned(Err(request_url.err))
                /\ trail' = Append(trail, "build_error")
    /\ UNCHANGED <<env, fs, history, opened, log, transportVars, resolverVars,
                   status, delivered, data>>

\* client.request(request).await, line 127: the connector produced a stream
ConnectOk ==
    /\ phase = "Connecting"
    /\ phase' = "Connected"
    /\ trail' = Append(trail, "connected")
    /\ UNCHANGED <<env, fs, history, opened, log, transportVars, resolverVars,
                   call, status, delivered, data, result>>

\* client.request(request).await?, line 127: connecting failed, or the
\* exchange failed before a response head arrived
RequestFail ==
    /\ phase \in {"Connecting", "Connected"}
    /\ phase' = "Closed"
    /\ result' = Returned(Err([kind |-> "Hyper", cause |-> phase]))
    /\ trail' = Append(trail, "request_error")
    /\ UNCHANGED <<env, fs, history, opened, log, transportVars, resolverVars,
                   call, status, delivered, data>>

\* start_request lines 127-132 once the response head is there, and, for a
\* caller of start_request alone, its return
Respond(s) ==
    /\ phase = "Connected"
    /\ status' = s
    /\ IF start_request(s).ok
       THEN /\ phase' = "Streaming"
            /\ trail' = Append(trail, "status")
            /\ result' = IF call.method.via = "start_request"
                         THEN Returned(start_request(s))
                         ELSE result
       ELSE /\ phase' = "Closed"
            /\ trail' = Append(trail, "status_error")
            /\ result' = Returned(start_request(s))
    /\ UNCHANGED <<env, fs, history, opened, log, transportVars, resolverVars,
                   call, delivered, data>>

\* execute_request lines 139-143, one stream.next().await, and what follows
\* the loop without another await: the return of line 143 and, in
\* decode_url, the decode of lines 161-164
Pull(item) ==
    /\ phase = "Streaming"
    /\ call.method.via \in {"execute_request", "decode_url"}
    /\ (item.some /\ item.val.ok) => Len(delivered) < MaxChunks
    /\ delivered' = IF item.some /\ item.val.ok
                    THEN Append(delivered, item.val.val)
                    ELSE delivered
    /\ LET turn == next_chunk(data, item)
           event == IF ~item.some THEN "end"
                    ELSE IF item.val.ok THEN "chunk" ELSE "read_error"
       IN  /\ data' = turn.data
           /\ IF turn.continue
              THEN /\ phase' = phase
                   /\ result' = result
                   /\ trail' = Append(trail, event)
              ELSE IF ~turn.ret.ok \/ call.method.via = "execute_request"
              THEN /\ phase' = "Closed"
                   /\ result' = Returned(turn.ret)
                   /\ trail' = Append(trail, event)
              ELSE /\ phase' = "Closed"
                   /\ result' = Returned(decode(call.method.type_name,
                                                call.method.shape, turn.ret.val))
                   /\ trail' = trail \o <<event, "decode">>
    /\ UNCHANGED <<env, fs, history, opened, log, transportVars, resolverVars, call, status>>

Request ==
    \/ \E method \in Methods, url \in Urls : Call(method, url)
    \/ ConnectOk
    \/ RequestFail
    \/ \E s \in Statuses : Respond(s)
    \/ \E chunk \in Chunks : Pull(Some(Ok(chunk)))
    \/ Pull(Some(Err("body")))
    \/ Pull(EndOfStream)

(***************************************************************************)
(* A built client over time: the process changes its environment, and the  *)
(* TLS layer asks the resolver at each handshake.                          *)
(***************************************************************************)
\* the values the environment variables take
TlsVerifyValues == {Unset, Set(<<"1">>), Set(<<>>)}
CertPathValues == {Unset, Set(CertPathDir)}
ConfigValues == {Unset, Set(ConfigDir)}
HomeValues == {Unset, Set(HomeDir)}

EnvNames == {"DOCKER_HOST", "DOCKER_TLS_VERIFY", "DOCKER_CERT_PATH", "DOCKER_CONFIG"}

\* the values std::env::set_var and remove_var give a variable here
EnvValues(name) ==
    IF name = "DOCKER_HOST" THEN {Unset, Set(TcpScheme \o <<"h">>)}
    ELSE IF name = "DOCKER_TLS_VERIFY" THEN {Unset, Set(<<"1">>)}
    ELSE IF name = "DOCKER_CERT_PATH" THEN CertPathValues
    ELSE ConfigValues

\* the process sets or removes a variable after the client was built
SetEnv(name, value) ==
    /\ docker.called
    /\ Len(history) < MaxEvents
    /\ env[name] # value
    /\ env' = [env EXCEPT ![name] = value]
    /\ history' = Append(history, [kind |-> "setenv", name |-> name,
                                   was |-> env[name], now |-> value])
    /\ UNCHANGED <<fs, opened, log, transportVars, resolverVars, requestVars>>

\* a TLS handshake of the built HTTPS client in which the server asks for a
\* client certificate: rustls calls the resolver installed at line 99
Handshake(acceptable_issuers, sigschemes) ==
    /\ docker.called
    /\ docker.ret.ok
    /\ docker.ret.val.client.variant = "Https"
    /\ Len(history) < MaxEvents
    /\ identity' = [called |-> TRUE, ret |-> resolve_outcome.ret]
    /\ hello' = [acceptable_issuers |-> acceptable_issuers, sigschemes |-> sigschemes]
    /\ opened' = opened \o resolve_outcome.opens
    /\ log' = log \o resolve_outcome.logs
    /\ history' = Append(history, [kind |-> "handshake", name |-> "",
                                   was |-> Unset, now |-> Unset])
    /\ UNCHANGED <<env, fs, transportVars, requestVars>>

(***************************************************************************)
(* The inputs.                                                             *)
(***************************************************************************)

IdleRequest ==
    /\ call = NoCall
    /\ phase = "Unconnected"
    /\ status = 0
    /\ delivered = <<>>
    /\ data = <<>>
    /\ result = NotReturned
    /\ trail = <<>>

Untouched ==
    /\ opened = <<>>
    /\ log = <<>>
    /\ history = <<>>
    /\ built = <<>>
    /\ docker = NotCalled
    /\ identity = NotCalled
    /\ hello = NoHello

\* the program starts: any DOCKER_HOST, any TLS setting, any ca.pem
InitConnect ==
    /\ \E host \in {Unset, NotUnicode} \cup {Set(h) : h \in Hosts},
          tls \in TlsVerifyValues, cp \in CertPathValues, home \in HomeValues :
            env = [DOCKER_HOST |-> host, DOCKER_TLS_VERIFY |-> tls,
                   DOCKER_CERT_PATH |-> cp, DOCKER_CONFIG |-> Unset, HOME |-> home]
    /\ \E d \in CertDirs, ca \in CaFiles : fs = FsWith(d, Missing, ca, Missing)
    /\ Untouched
    /\ IdleRequest

NextConnect == ConnectWithDefaults

SpecConnect == InitConnect /\ [][NextConnect]_vars

\* a TLS handshake asks the resolver: any environment, any certificate directory
InitResolve ==
    /\ \E tls \in TlsVerifyValues, cp \in CertPathValues,
          cf \in ConfigValues, home \in HomeValues :
            env = [DOCKER_HOST |-> Unset, DOCKER_TLS_VERIFY |-> tls,
                   DOCKER_CERT_PATH |-> cp, DOCKER_CONFIG |-> cf, HOME |-> home]
    /\ \E d \in CertDirs, cert \in LeafFiles, ca \in CaFiles, key \in KeyFiles :
            fs = FsWith(d, cert, ca, key)
    /\ Untouched
    /\ IdleRequest

NextResolve == Resolve

SpecResolve == InitResolve /\ [][NextResolve]_vars

\* a client has been built, for the default socket or for a TCP endpoint,
\* and no request has been made
InitRequest ==
    /\ \E host \in {Unset, Set(TcpScheme \o <<"h">>)} :
            env = [DOCKER_HOST |-> host, DOCKER_TLS_VERIFY |-> Unset,
                   DOCKER_CERT_PATH |-> Unset, DOCKER_CONFIG |-> Unset,
                   HOME |-> Set(HomeDir)]
    /\ fs = [p \in FsPaths |-> Missing]
    /\ opened = <<>>
    /\ log = <<>>
    /\ history = <<>>
    /\ built = connect_with_defaults("all").ctors
    /\ docker = [called |-> TRUE, ret |-> connect_with_defaults("all").r]
    /\ identity = NotCalled
    /\ hello = NoHello
    /\ IdleRequest

NextRequest == Request

SpecRequest == InitRequest /\ [][NextRequest]_vars

\* the program starts with one certificate directory that holds an identity
InitConfig ==
    /\ \E host \in EnvValues("DOCKER_HOST"), tls \in EnvValues("DOCKER_TLS_VERIFY"),
          cp \in CertPathValues, cf \in ConfigValues :
            env = [DOCKER_HOST |-> host, DOCKER_TLS_VERIFY |-> tls,
                   DOCKER_CERT_PATH |-> cp, DOCKER_CONFIG |-> cf, HOME |-> Set(HomeDir)]
    /\ \E d \in CertDirs, ca \in {Missing, File(<<Section("CERTIFICATE", "caC")>>)} :
            fs = FsWith(d, File(<<Section("CERTIFICATE", "leafA")>>), ca,
                        File(<<Section("PRIVATE KEY", "rsa-pkcs8")>>))
    /\ Untouched
    /\ IdleRequest

NextConfig ==
    \/ ConnectWithDefaults
    \/ \E name \in EnvNames : \E value \in EnvValues(name) : SetEnv(name, value)
    \/ \E i \in Issuers, sg \in SigSchemes : Handshake(i, sg)

SpecConfig == InitConfig /\ [][NextConfig]_vars

(***************************************************************************)
(* What the request pipeline is asked about.                               *)
(***************************************************************************)
InTrail(event) == \E i \in 1..Len(trail) : trail[i] = event

\* the body as the stream delivered it: the chunks end to end
BodyDelivered == Flatten(delivered)

Accumulates == call.method.via \in {"execute_request", "decode_url"}

\* C1: the buffer is the concatenation of the chunks in arrival order: while
\* the body streams, when execute_request returns it, and when decode_url
\* hands it to the decoder.
C1_BufferIsChunksInOrder ==
    /\ (phase = "Streaming" /\ Accumulates) => data = BodyDelivered
    /\ (result.returned /\ result.ret.ok /\ call.method.via = "execute_request")
          => result.ret.val = BodyDelivered
    /\ (result.returned /\ result.ret.ok /\ call.method.via = "decode_url")
          => result.ret.val.decoded = BodyDelivered

\* C1's case: {"a": then 1 then } came to exactly {"a":1}
C1_Witness ==
    /\ result.returned
    /\ call.method.via = "execute_request"
    /\ delivered = <<OpenObject, One, CloseObject>>
    /\ result.ret.ok
    /\ result.ret.val = <<123, 34, 97, 34, 58, 49, 125>>

StatusArrived == status # 0
StatusIs2xx == status \in 200..299

\* C2: a response whose status is not 2xx ends the call with an error whose
\* message holds the status code's digits; no chunk of its body is read and
\* the request never streams.
C2_NonSuccessIsRejectedUnread ==
    (StatusArrived /\ ~StatusIs2xx) =>
        /\ phase = "Closed"
        /\ result.returned
        /\ ~result.ret.ok
        /\ contains(result.ret.err.msg, Digits(status))
        /\ delivered = <<>>
        /\ data = <<>>
        /\ ~InTrail("status")
        /\ ~InTrail("chunk")

\* C2's case: a 404, whose error message holds "404"
C2_Witness ==
    /\ status = 404
    /\ result.returned
    /\ ~result.ret.ok
    /\ contains(result.ret.err.msg, <<"4", "0", "4">>)
    /\ call.method.via = "decode_url"

\* C3: once a chunk read has failed the call is over with an error: it was
\* the last thing that happened, the buffer is gone and the result carries
\* no bytes; and a call that returns a body or a decoded value has seen the
\* stream end and returns the whole body.  Nothing is requested twice.
C3_ChunkErrorAborts ==
    /\ InTrail("read_error") =>
        /\ phase = "Closed"
        /\ trail[Len(trail)] = "read_error"
        /\ result.returned
        /\ ~result.ret.ok
        /\ result.ret.err.kind = "Hyper"
        /\ data = <<>>
    /\ (result.returned /\ result.ret.ok /\ Accumulates) =>
        /\ InTrail("end")
        /\ ~InTrail("read_error")
        /\ IF call.method.via = "execute_request"
           THEN result.ret.val = BodyDelivered
           ELSE result.ret.val.decoded = BodyDelivered
    /\ Cardinality({i \in 1..Len(trail) : trail[i] = "request"}) <= 1

\* C3's case: two chunks with bytes in them had been accumulated when the
\* third read failed
C3_Witness ==
    /\ InTrail("read_error")
    /\ Len(delivered) = 2
    /\ delivered[1] # <<>>
    /\ delivered[2] # <<>>
    /\ result.returned

\* the text of a body as it is shown: ASCII as it is, U+FFFD for a byte that
\* is no UTF-8
Shown(bytes) == [i \in 1..Len(bytes) |-> IF bytes[i] <= 127 THEN bytes[i] ELSE 65533]

\* the case of C4: decode_url has read the whole body, and the body is not a
\* document of the requested type
C4_Case ==
    /\ result.returned
    /\ call.method.via = "decode_url"
    /\ InTrail("end")
    /\ ~from_slice(call.method.shape, BodyDelivered).ok

\* C4: a body that does not deserialize ends decode_url with a ParseError
\* that carries the type name it was called with and the text of the body.
C4_DecodeErrorCarriesNameAndBody ==
    C4_Case =>
        /\ ~result.ret.ok
        /\ result.ret.err.kind = "ParseError"
        /\ result.ret.err.type_name = call.method.type_name
        /\ result.ret.err.text = Shown(BodyDelivered)

\* C4's case: "Container" and the body `not json`
C4_Witness ==
    /\ C4_Case
    /\ call.method.type_name = "Container"
    /\ BodyDelivered = NotJson
    /\ ~result.ret.ok
    /\ result.ret.err.type_name = "Container"
    /\ result.ret.err.text = <<110, 111, 116, 32, 106, 115, 111, 110>>

PhaseEdges ==
    { <<"Unconnected", "Connecting">>, <<"Connecting", "Connected">>,
      <<"Connected", "Streaming">>, <<"Streaming", "Closed">> }
FailureEdges ==
    { <<"Unconnected", "Closed">>, <<"Connecting", "Closed">>,
      <<"Connected", "Closed">>, <<"Streaming", "Closed">> }
Failures == {"build_error", "request_error", "status_error", "read_error"}

\* one step of a request, as C10 has it
C10_Step ==
    /\ phase' # phase => <<phase, phase'>> \in PhaseEdges \cup FailureEdges
    /\ (phase' # phase /\ <<phase, phase'>> \notin PhaseEdges)
          => (result'.returned /\ ~result'.ret.ok)
    /\ delivered' # delivered =>
          (phase = "Streaming" /\ StatusArrived /\ StatusIs2xx /\ InTrail("status"))
    /\ (trail' # trail /\ trail'[Len(trail')] = "decode") =>
          /\ trail'[Len(trail') - 1] = "end"
          /\ phase = "Streaming"
          /\ phase' = "Closed"
    /\ (trail' # trail /\ trail'[Len(trail')] \in Failures) =>
          /\ phase' = "Closed"
          /\ result'.returned
          /\ ~result'.ret.ok
          /\ ~result.returned
    /\ phase = "Closed" => vars' = vars

\* C10: a request goes Unconnected, Connecting, Connected, Streaming,
\* Closed, in this order and once each: a chunk is read only while streaming
\* under a 2xx status, the decode follows the end of the stream, a failure in
\* any phase closes the request with one error, and nothing follows Closed.
C10_PhasesInOrder == [][C10_Step]_vars

\* C10's case: a request that went through every phase and decoded its body
C10_Witness ==
    /\ phase = "Closed"
    /\ trail = <<"request", "connected", "status", "chunk", "end", "decode">>
    /\ result.returned
    /\ result.ret.ok

(***************************************************************************)
(* What the resolver is asked about, read off the environment and the file *)
(* system.                                                                 *)
(***************************************************************************)
MutualTlsEnabled == env["DOCKER_TLS_VERIFY"].state = "set"
MutualTlsUnset == env["DOCKER_TLS_VERIFY"].state = "unset"

\* the three files of the directory resolution searches; only used where
\* default_cert_path.ok
SearchedCertPem == fs[Append(default_cert_path.val, CertPem)]
SearchedCaPem == fs[Append(default_cert_path.val, CaPem)]
SearchedKeyPem == fs[Append(default_cert_path.val, KeyPem)]

Readable(file, label) == file.exists /\ pemfile_extract(file.sections, label).ok

\* cert.pem and ca.pem of the searched directory both read as certificates
CertFilesRead ==
    /\ default_cert_path.ok
    /\ Readable(SearchedCertPem, "CERTIFICATE")
    /\ Readable(SearchedCaPem, "CERTIFICATE")

\* key.pem of the searched directory reads, in both encodings
KeyFileRead ==
    /\ default_cert_path.ok
    /\ Readable(SearchedKeyPem, "PRIVATE KEY")
    /\ Readable(SearchedKeyPem, "RSA PRIVATE KEY")

\* the number of private keys key.pem yields
KeysYielded ==
    Len(SelectSeq(SearchedKeyPem.sections,
                  LAMBDA s : s.label \in {"PRIVATE KEY", "RSA PRIVATE KEY"}))

CertsOf(file) ==
    LET mine == SelectSeq(file.sections, LAMBDA s : s.label = "CERTIFICATE")
    IN  [i \in 1..Len(mine) |-> mine[i].der]

\* C5: with DOCKER_TLS_VERIFY unset, resolve returns no identity and opens no
\* file, whatever the server asked for and whatever the directories hold.
C5_NoIdentityWhenTlsUnset ==
    (identity.called /\ MutualTlsUnset)
        => (identity.ret = None /\ opened = <<>>)

\* C5's case: TLS unset, yet the searched directory holds a complete identity
\* and the server named an issuer and a signature scheme.
C5_Witness ==
    /\ identity.called
    /\ MutualTlsUnset
    /\ CertFilesRead
    /\ KeyFileRead
    /\ KeysYielded = 1
    /\ Len(CertsOf(SearchedCertPem)) >= 1
    /\ hello.acceptable_issuers # <<>>
    /\ hello.sigschemes # <<>>

\* the case of C6: mutual TLS on, key.pem read, and not exactly one key in it
C6_Case == identity.called /\ MutualTlsEnabled /\ KeyFileRead /\ KeysYielded # 1

\* C6 as claimed: with mutual TLS enabled and zero or several keys in
\* key.pem, resolve ends in a failure that can be told from the "no identity"
\* answer it gives when mutual TLS is disabled, and presents no identity.
C6_AsClaimed ==
    C6_Case => (identity.ret # None /\ ~identity.ret.some)

\* C6 as amended: with mutual TLS enabled and zero or several keys in
\* key.pem, docker_client_key fails, and resolve logs that one error and returns
\* None, the very answer it gives when mutual TLS is disabled; once cert.pem
\* and ca.pem were read, the error is "expected 1 private key", naming
\* key.pem and the number found.
C6_KeyCountErrorIsLoggedAndNone ==
    C6_Case =>
        /\ identity.ret = None
        /\ Len(log) = 1
        /\ log[1].level = "error"
        /\ CertFilesRead =>
            /\ log[1].err.msg = "expected 1 private key"
            /\ log[1].err.path = Append(default_cert_path.val, KeyPem)
            /\ log[1].err.found = KeysYielded

\* C6's case with two keys, of which the first alone would make an identity
C6_Witness ==
    /\ C6_Case
    /\ CertFilesRead
    /\ KeysYielded = 2
    /\ SearchedKeyPem.sections[1].der = "rsa-pkcs8"
    /\ Len(log) = 1

\* the case of C7: mutual TLS on, both certificate files read, key.pem read
\* and holding exactly one key, an RSA one
C7_Case ==
    /\ identity.called
    /\ MutualTlsEnabled
    /\ CertFilesRead
    /\ KeyFileRead
    /\ KeysYielded = 1
    /\ \E i \in 1..Len(SearchedKeyPem.sections) :
          SearchedKeyPem.sections[i].der \in {"rsa-pkcs8", "rsa-pkcs1"}

\* C7: with mutual TLS enabled and exactly one usable key, resolve presents
\* cert.pem's certificates in file order followed by ca.pem's in file order.
C7_ChainIsLeafThenCa ==
    C7_Case =>
        /\ identity.ret.some
        /\ identity.ret.val.cert = CertsOf(SearchedCertPem) \o CertsOf(SearchedCaPem)
        /\ Len(identity.ret.val.cert)
              = Len(CertsOf(SearchedCertPem)) + Len(CertsOf(SearchedCaPem))

\* C7's case with one certificate in each file: a chain of two
C7_Witness ==
    /\ C7_Case
    /\ Len(CertsOf(SearchedCertPem)) = 1
    /\ Len(CertsOf(SearchedCaPem)) = 1
    /\ identity.ret.some
    /\ Len(identity.ret.val.cert) = 2

(***************************************************************************)
(* What transport selection is asked about.                                *)
(***************************************************************************)
\* the endpoint string: DOCKER_HOST, or the default when it cannot be read
Endpoint ==
    IF env["DOCKER_HOST"].state = "set" THEN env["DOCKER_HOST"].val
    ELSE DEFAULT_DOCKER_HOST

After(s, scheme) == SubSeq(s, Len(scheme) + 1, Len(s))

\* C8: the scheme prefix decides the transport: unix:// + r gives the Local
\* connector and URL builder with path r; tcp:// + r is handed to the HTTPS
\* side and every client it returns has base https:// + r; r is kept as it
\* is, and connector and URL builder are of one variant.
C8_TransportFollowsPrefix ==
    docker.called =>
        /\ starts_with(Endpoint, UnixScheme) =>
            /\ built = <<"unix">>
            /\ docker.ret.ok
            /\ docker.ret.val.client.variant = "Local"
            /\ docker.ret.val.url_builder.variant = "Local"
            /\ docker.ret.val.url_builder.base = After(Endpoint, UnixScheme)
        /\ starts_with(Endpoint, TcpScheme) =>
            /\ built = <<"https">>
            /\ IF docker.ret.ok
               THEN /\ docker.ret.val.client.variant = "Https"
                    /\ docker.ret.val.url_builder.variant = "Https"
                    /\ docker.ret.val.url_builder.base
                          = HttpsScheme \o After(Endpoint, TcpScheme)
               ELSE /\ docker.ret.err.kind = "CouldNotConnect"
                    /\ docker.ret.err.host = Endpoint
        /\ docker.ret.ok =>
            docker.ret.val.client.variant = docker.ret.val.url_builder.variant

\* C8's case: a client for an endpoint whose remainder holds the scheme again
C8_Witness ==
    /\ docker.called
    /\ docker.ret.ok
    /\ \/ /\ starts_with(Endpoint, TcpScheme)
          /\ contains(After(Endpoint, TcpScheme), TcpScheme)
       \/ /\ starts_with(Endpoint, UnixScheme)
          /\ contains(After(Endpoint, UnixScheme), UnixScheme)

UnsupportedEndpoint ==
    ~starts_with(Endpoint, UnixScheme) /\ ~starts_with(Endpoint, TcpScheme)

\* C9: an endpoint with neither prefix is refused with UnsupportedScheme
\* naming it; no connector constructor runs, no file is opened, nothing is
\* logged and no client is returned.
C9_UnsupportedSchemeFailsFast ==
    (docker.called /\ UnsupportedEndpoint) =>
        /\ ~docker.ret.ok
        /\ docker.ret.err.kind = "UnsupportedScheme"
        /\ docker.ret.err.host = Endpoint
        /\ built = <<>>
        /\ opened = <<>>
        /\ log = <<>>

\* C9's case: a near miss of tcp://, with mutual TLS on and a ca.pem that the
\* HTTPS connector would have opened
C9_Witness ==
    /\ docker.called
    /\ UnsupportedEndpoint
    /\ Endpoint # <<>>
    /\ MutualTlsEnabled
    /\ default_cert_path.ok
    /\ SearchedCaPem.exists

(***************************************************************************)
(* What key discovery is asked about.                                      *)
(***************************************************************************)
KeysLabelled(label) ==
    LET mine == SelectSeq(SearchedKeyPem.sections, LAMBDA s : s.label = label)
    IN  [i \in 1..Len(mine) |-> mine[i].der]

\* how often key.pem of the searched directory has been opened
KeyPemOpens ==
    Cardinality({i \in 1..Len(opened) : opened[i] = Append(default_cert_path.val, KeyPem)})

\* the case of C11: mutual TLS on, the certificate files read, key.pem read,
\* and at least one PKCS8 key in it
C11_Case ==
    /\ identity.called
    /\ MutualTlsEnabled
    /\ CertFilesRead
    /\ KeyFileRead
    /\ KeysLabelled("PRIVATE KEY") # <<>>

\* C11 as claimed: once the PKCS8 parse has yielded a key the RSA parse is not
\* attempted, so key.pem is opened once, and a key.pem with one PKCS8 key and
\* one RSA key resolves to the PKCS8 key.
C11_AsClaimed ==
    C11_Case =>
        /\ KeyPemOpens = 1
        /\ (Len(KeysLabelled("PRIVATE KEY")) = 1
              /\ KeysLabelled("PRIVATE KEY")[1] = "rsa-pkcs8"
              /\ Len(KeysLabelled("RSA PRIVATE KEY")) = 1)
           => (identity.ret.some /\ identity.ret.val.key.signing_key = "rsa-pkcs8")

\* C11 as amended: key discovery parses key.pem for PKCS8 keys and then
\* always opens it again and parses it for RSA keys; the keys found are the
\* PKCS8 keys followed by the RSA keys, so a key.pem with one PKCS8 key and
\* one RSA key yields two keys and resolution fails with "expected 1 private
\* key", found 2, and no identity.
C11_BothParsesAlwaysRun ==
    C11_Case =>
        /\ KeyPemOpens = 2
        /\ IF KeysYielded = 1
           THEN identity.ret.some
                    <=> KeysLabelled("PRIVATE KEY")[1] = "rsa-pkcs8"
           ELSE /\ identity.ret = None
                /\ Len(log) = 1
                /\ log[1].err.msg = "expected 1 private key"
                /\ log[1].err.found
                      = Len(KeysLabelled("PRIVATE KEY")) + Len(KeysLabelled("RSA PRIVATE KEY"))

\* C11's case: one PKCS8 key and one RSA key, either of which alone would do
C11_Witness ==
    /\ C11_Case
    /\ KeysLabelled("PRIVATE KEY") = <<"rsa-pkcs8">>
    /\ KeysLabelled("RSA PRIVATE KEY") = <<"rsa-pkcs1">>
    /\ identity.ret = None
    /\ log[1].err.found = 2

(***************************************************************************)
(* What the identity handed to the TLS layer is asked about.               *)
(***************************************************************************)
\* C12: an identity that resolve returns is whole: its certificate chain is
\* not empty and it was built from the one private key key.pem yields.
C12_IdentityIsWholeOrAbsent ==
    (identity.called /\ identity.ret.some) =>
        /\ Len(identity.ret.val.cert) >= 1
        /\ KeysYielded = 1

(***************************************************************************)
(* What a built client is asked about once the environment changes.       *)
(***************************************************************************)
\* the environment as connect_with_defaults saw it: a variable changed since
\* then had the value its first change replaced
EnvAtBuild ==
    [n \in DOMAIN env |->
        LET changes == {i \in 1..Len(history) :
                            history[i].kind = "setenv" /\ history[i].name = n}
        IN  IF changes = {} THEN env[n]
            ELSE history[CHOOSE i \in changes : \A j \in changes : i <= j].was]

\* the directory an environment names: the cert-path override, else the
\* config-directory override, else <home>/.docker
DirNamedBy(e) ==
    IF e["DOCKER_CERT_PATH"].state = "set" THEN <<e["DOCKER_CERT_PATH"].val>>
    ELSE IF e["DOCKER_CONFIG"].state = "set" THEN <<e["DOCKER_CONFIG"].val>>
    ELSE <<e["HOME"].val, DotDocker>>

TlsOn(e) == e["DOCKER_TLS_VERIFY"].state = "set"

\* the directory holds an identity resolution accepts
HoldsIdentity(dir) ==
    /\ Readable(fs[Append(dir, CertPem)], "CERTIFICATE")
    /\ Readable(fs[Append(dir, CaPem)], "CERTIFICATE")
    /\ Readable(fs[Append(dir, KeyPem)], "PRIVATE KEY")
    /\ Readable(fs[Append(dir, KeyPem)], "RSA PRIVATE KEY")
    /\ Len(SelectSeq(fs[Append(dir, KeyPem)].sections,
                     LAMBDA s : s.label \in {"PRIVATE KEY", "RSA PRIVATE KEY"})) = 1

\* this step is a handshake of the built client
HandshakeStep ==
    /\ Len(history') = Len(history) + 1
    /\ history'[Len(history')].kind = "handshake"

\* the files this step opened
NewOpens == SubSeq(opened', Len(opened) + 1, Len(opened'))

C13_Step ==
    /\ docker.called => (docker' = docker /\ built' = built)
    /\ HandshakeStep =>
        /\ identity'.ret.some <=>
                (TlsOn(EnvAtBuild) /\ HoldsIdentity(DirNamedBy(EnvAtBuild)))
        /\ \A i \in 1..Len(NewOpens) :
                SubSeq(NewOpens[i], 1, Len(NewOpens[i]) - 1) = DirNamedBy(EnvAtBuild)

\* C13: once a client is built, a change of DOCKER_TLS_VERIFY, DOCKER_CERT_PATH
\* or DOCKER_CONFIG changes neither the transport, nor whether a handshake
\* presents an identity, nor the directory a handshake searches: each follows
\* the environment connect_with_defaults saw.
C13_ConfigurationResolvedOnce == [][C13_Step]_vars

====
